---------------------------- MODULE Spec2Model ----------------------------
(***************************************************************************)
(* pishutdown.py: two GPIO buttons of a Raspberry Pi, one halting and one  *)
(* rebooting the machine.                                                  *)
(*                                                                         *)
(* The script runs on the main thread: it sets the BCM numbering, makes    *)
(* pins 23 and 24 inputs, registers a FALLING-edge callback with           *)
(* bouncetime=200 on each, and sleeps forever.  RPi.GPIO delivers the      *)
(* edges on ONE notification thread for the whole process: it takes one    *)
(* pending pin at a time, applies the bounce test against the clock at     *)
(* that moment (an edge is let through when the pin never fired before or  *)
(* more than bouncetime ms have passed since it last fired), and runs the  *)
(* pin's callbacks to completion before it looks at the next pin.  A       *)
(* callback prints and then calls os.system, which blocks until the        *)
(* command has returned.                                                   *)
(*                                                                         *)
(* Time is in milliseconds and advances in steps of the bounce time, so    *)
(* that edges fall inside (the same instant), exactly on and outside the   *)
(* bounce window.                                                          *)
(***************************************************************************)
EXTENDS Integers, Sequences, FiniteSets, TLC

VARIABLES
    pc,         \* main thread: index of the next statement of Main
    proc,       \* the process: "running", "crashed" (uncaught exception) or "down" (machine gone)
    going_down, \* a shutdown or reboot command succeeded: the machine is on its way down
    now,        \* the clock, ms since process start
    slept,      \* a time.sleep(.5) of the main loop has returned
    refused,    \* the statement of Main at which the platform refused a pin, 0 when none
    mode,       \* GPIO numbering mode
    direction,  \* the channels set up so far -> "in"
    events,     \* the channels with edge detection -> the record RPi.GPIO keeps
    level,      \* pin -> "HIGH" | "LOW", the line itself
    pending,    \* pins whose value file is readable: an edge the thread has not looked at
    th,         \* the notification thread: callbacks still to run, the pin, the line, blocked or not
    child,      \* the command os.system is running, or "none"
    log,        \* what was printed and issued and how the commands returned, in order
    edges,      \* pin -> the falling edges so far (time, and what the program was doing)
    calls       \* pin -> how often the pin's callbacks were invoked

vars == <<pc, proc, going_down, now, slept, refused, mode, direction,
          events, level, pending, th, child, log, edges, calls>>

----------------------------------------------------------------------------
(* Bounds of the model *)

MaxTicks == 2       \* the clock stops after this many steps
MaxEdges == 2       \* falling edges, both pins together

(* Program constants *)

ShutdownPin == 23
RebootPin == 24
BounceTime == 200   \* bouncetime=200, ms
NoCall == -1        \* lastcall of a pin whose callbacks never ran

Pins == {ShutdownPin, RebootPin}

alive == proc = "running"

(* The BCM channels of the 40-pin header: what GPIO.setup accepts *)
Channels == 2 .. 27
Step == BounceTime

----------------------------------------------------------------------------
(* The callbacks: def shutdown(pin), def reboot(pin) *)

(* Mutants of shutdown: the reboot command pasted in; the command before the
   notification *)
shutdown_wrong_command ==
    << [op |-> "print", arg |-> "shutting down"],
       [op |-> "system", arg |-> "sudo reboot"] >>

shutdown_system_first ==
    << [op |-> "system", arg |-> "sudo shutdown -h now"],
       [op |-> "print", arg |-> "shutting down"] >>

shutdown ==
    << [op |-> "print", arg |-> "shutting down"],
       [op |-> "system", arg |-> "sudo shutdown -h now"] >>

(* Mutant of reboot: the command issued twice *)
reboot_twice ==
    << [op |-> "print", arg |-> "rebooting"],
       [op |-> "system", arg |-> "sudo reboot"],
       [op |-> "system", arg |-> "sudo reboot"] >>

reboot ==
    << [op |-> "print", arg |-> "rebooting"],
       [op |-> "system", arg |-> "sudo reboot"] >>

Body(fn) == IF fn = "shutdown" THEN shutdown ELSE reboot

(* Mutant of Main: the reboot button wired to the shutdown button's pin *)
Main_same_pin ==
    << [op |-> "setmode", mode |-> "BCM"],
       [op |-> "setup", pin |-> ShutdownPin, dir |-> "in"],
       [op |-> "add_event_detect", pin |-> ShutdownPin, edge |-> "falling",
        callback |-> "shutdown", bouncetime |-> BounceTime],
       [op |-> "setup", pin |-> ShutdownPin, dir |-> "in"],
       [op |-> "add_event_detect", pin |-> ShutdownPin, edge |-> "falling",
        callback |-> "reboot", bouncetime |-> BounceTime] >>

(* Mutant of Main: the reboot button set up and registered first *)
Main_reboot_first ==
    << [op |-> "setmode", mode |-> "BCM"],
       [op |-> "setup", pin |-> RebootPin, dir |-> "in"],
       [op |-> "add_event_detect", pin |-> RebootPin, edge |-> "falling",
        callback |-> "reboot", bouncetime |-> BounceTime],
       [op |-> "setup", pin |-> ShutdownPin, dir |-> "in"],
       [op |-> "add_event_detect", pin |-> ShutdownPin, edge |-> "falling",
        callback |-> "shutdown", bouncetime |-> BounceTime] >>

(* Mutant of Main: the callbacks registered for both edges of the line *)
Main_both_edges ==
    << [op |-> "setmode", mode |-> "BCM"],
       [op |-> "setup", pin |-> ShutdownPin, dir |-> "in"],
       [op |-> "add_event_detect", pin |-> ShutdownPin, edge |-> "both",
        callback |-> "shutdown", bouncetime |-> BounceTime],
       [op |-> "setup", pin |-> RebootPin, dir |-> "in"],
       [op |-> "add_event_detect", pin |-> RebootPin, edge |-> "both",
        callback |-> "reboot", bouncetime |-> BounceTime] >>

(* Mutant of Main: the callbacks given to the wrong buttons *)
Main_swapped ==
    << [op |-> "setmode", mode |-> "BCM"],
       [op |-> "setup", pin |-> ShutdownPin, dir |-> "in"],
       [op |-> "add_event_detect", pin |-> ShutdownPin, edge |-> "falling",
        callback |-> "reboot", bouncetime |-> BounceTime],
       [op |-> "setup", pin |-> RebootPin, dir |-> "in"],
       [op |-> "add_event_detect", pin |-> RebootPin, edge |-> "falling",
        callback |-> "shutdown", bouncetime |-> BounceTime] >>

(* The statements of the script, lines 16-20; the loop of lines 22-23 follows *)
Main ==
    << [op |-> "setmode", mode |-> "BCM"],
       [op |-> "setup", pin |-> ShutdownPin, dir |-> "in"],
       [op |-> "add_event_detect", pin |-> ShutdownPin, edge |-> "falling",
        callback |-> "shutdown", bouncetime |-> BounceTime],
       [op |-> "setup", pin |-> RebootPin, dir |-> "in"],
       [op |-> "add_event_detect", pin |-> RebootPin, edge |-> "falling",
        callback |-> "reboot", bouncetime |-> BounceTime] >>

InLoop == pc \in {Len(Main) + 1, Len(Main) + 2}
Stmt == Main[pc]

(* f with x mapped to v *)
Put(f, x, v) == [y \in DOMAIN f \cup {x} |-> IF y = x THEN v ELSE f[y]]

(* The edge a channel is watched for *)
EdgeOf(p) == IF p \in DOMAIN events THEN events[p].edge ELSE "none"
Idle == [todo |-> <<>>, pin |-> 0, line |-> 0, blocked |-> FALSE]

----------------------------------------------------------------------------
Init ==
    /\ pc = 1
    /\ proc = "running"
    /\ going_down = FALSE
    /\ now = 0
    /\ slept = FALSE
    /\ refused = 0
    /\ mode = "unset"
    /\ direction = <<>>
    /\ events = <<>>
    /\ level = [p \in Pins |-> "HIGH"]
    /\ pending = {}
    /\ th = Idle
    /\ child = "none"
    /\ log = <<>>
    /\ edges = [p \in Pins |-> <<>>]
    /\ calls = [p \in Pins |-> 0]

(* Mutant of Raise: the exception is swallowed and the script goes on *)
Raise_swallowed ==
    /\ pc' = pc + 1
    /\ UNCHANGED <<proc, mode, direction, events>>

(* An exception nobody catches ends the script: the interpreter exits *)
Raise ==
    /\ proc' = "crashed"
    /\ UNCHANGED <<pc, mode, direction, events>>

(* The platform may refuse a pin of its own (no access, the pin held by
   another user): the call then raises *)
Platform(no) == refused' = IF no THEN pc ELSE refused

(* GPIO.setmode(GPIO.BCM) *)
Setmode ==
    /\ alive /\ pc <= Len(Main) /\ Stmt.op = "setmode"
    /\ mode' = Stmt.mode
    /\ pc' = pc + 1
    /\ UNCHANGED <<proc, going_down, now, slept, refused, direction,
                   events, level, pending, th, child, log, edges, calls>>

(* GPIO.setup(pin, GPIO.IN): raises when no mode is set, when the channel is
   invalid or when the platform refuses the pin *)
Setup ==
    /\ alive /\ pc <= Len(Main) /\ Stmt.op = "setup"
    /\ \E no \in BOOLEAN :
         /\ Platform(no)
         /\ IF no \/ mode = "unset" \/ Stmt.pin \notin Channels
              THEN Raise
              ELSE /\ direction' = Put(direction, Stmt.pin, Stmt.dir)
                   /\ pc' = pc + 1
                   /\ UNCHANGED <<proc, mode, events>>
    /\ UNCHANGED <<going_down, now, slept, level, pending, th,
                   child, log, edges, calls>>

(* What GPIO.add_event_detect(pin, edge, callback=, bouncetime=) leaves in the
   pin's record *)
add_event_detect(s) ==
    [edge |-> s.edge, callbacks |-> <<s.callback>>, bouncetime |-> s.bouncetime,
     lastcall |-> NoCall]

(* It raises RuntimeError when the pin is no input or when edge detection is
   already enabled on the pin *)
DetectFails(s) ==
    \/ s.pin \notin Channels
    \/ s.pin \notin DOMAIN direction
    \/ direction[s.pin] # "in"
    \/ s.pin \in DOMAIN events

AddEventDetect ==
    /\ alive /\ pc <= Len(Main) /\ Stmt.op = "add_event_detect"
    /\ \E no \in BOOLEAN :
         /\ Platform(no)
         /\ IF no \/ DetectFails(Stmt)
              THEN Raise
              ELSE /\ events' = Put(events, Stmt.pin, add_event_detect(Stmt))
                   /\ pc' = pc + 1
                   /\ UNCHANGED <<proc, mode, direction>>
    /\ UNCHANGED <<going_down, now, slept, level, pending, th,
                   child, log, edges, calls>>

(* while True: the next time.sleep(.5) begins *)
While ==
    /\ alive /\ pc = Len(Main) + 1
    /\ pc' = Len(Main) + 2
    /\ UNCHANGED <<proc, going_down, now, slept, refused, mode, direction,
                   events, level, pending, th, child, log, edges, calls>>

(* Mutant of Sleep: the loop ends after one sleep *)
Sleep_breaks ==
    /\ alive /\ pc = Len(Main) + 2
    /\ pc' = Len(Main) + 3
    /\ slept' = TRUE
    /\ UNCHANGED <<proc, going_down, now, refused, mode, direction,
                   events, level, pending, th, child, log, edges, calls>>

(* time.sleep(.5) returns, back to the loop test.  How long the sleep lasts
   plays no part in what the program does, so it is left open. *)
Sleep ==
    /\ alive /\ pc = Len(Main) + 2
    /\ pc' = Len(Main) + 1
    /\ slept' = TRUE
    /\ UNCHANGED <<proc, going_down, now, refused, mode, direction,
                   events, level, pending, th, child, log, edges, calls>>

----------------------------------------------------------------------------
(* The lines and the notification thread *)

(* The transitions an edge setting reports *)
Detects(edge, from, to) ==
    \/ edge = "falling" /\ from = "HIGH" /\ to = "LOW"
    \/ edge = "rising" /\ from = "LOW" /\ to = "HIGH"
    \/ edge = "both" /\ from # to

NumEdges == Len(edges[ShutdownPin]) + Len(edges[RebootPin])

(* A button is pressed: the pulled-up line goes low *)
FallingEdge(p) ==
    /\ alive /\ level[p] = "HIGH"
    /\ NumEdges < MaxEdges
    /\ level' = [level EXCEPT ![p] = "LOW"]
    /\ edges' = [edges EXCEPT ![p] = Append(@,
                    [at |-> now, ready |-> InLoop])]
    /\ pending' = IF Detects(EdgeOf(p), "HIGH", "LOW")
                    THEN pending \cup {p} ELSE pending
    /\ UNCHANGED <<pc, proc, going_down, now, slept, refused, mode,
                   direction, events, th, child, log, calls>>

(* The button is released *)
RisingEdge(p) ==
    /\ alive /\ level[p] = "LOW"
    /\ level' = [level EXCEPT ![p] = "HIGH"]
    /\ pending' = IF Detects(EdgeOf(p), "LOW", "HIGH")
                    THEN pending \cup {p} ELSE pending
    /\ UNCHANGED <<pc, proc, going_down, now, slept, refused, mode,
                   direction, events, th, child, log, edges, calls>>

(* Mutant of Permits: the window is open at its far end *)
Permits_at_least(ev, t) ==
    \/ ev.lastcall = NoCall
    \/ t - ev.lastcall >= ev.bouncetime

(* Mutant of Permits: a latch, the pin triggers once and never again *)
Permits_once(ev, t) ==
    ev.lastcall = NoCall

(* The bounce test of bouncetime=: made when the thread looks at the edge *)
Permits(ev, t) ==
    \/ ev.lastcall = NoCall
    \/ t - ev.lastcall > ev.bouncetime

Start(cbs, p) ==
    IF cbs = <<>> THEN Idle
    ELSE [todo |-> cbs, pin |-> p, line |-> 1, blocked |-> FALSE]

(* Mutant of Poll: one bounce window for all the pins *)
Poll_shared_window(p) ==
    /\ alive /\ th = Idle /\ p \in pending
    /\ pending' = pending \ {p}
    /\ IF \A q \in DOMAIN events : Permits(events[q], now)
         THEN /\ events' = [events EXCEPT ![p].lastcall = now]
              /\ calls' = [calls EXCEPT ![p] = @ + 1]
              /\ th' = Start(events[p].callbacks, p)
         ELSE UNCHANGED <<events, calls, th>>
    /\ UNCHANGED <<pc, proc, going_down, now, slept, refused, mode,
                   direction, level, child, log, edges>>

(* Mutant of Poll: a registration is used up by the callback it triggers *)
Poll_oneshot(p) ==
    /\ alive /\ th = Idle /\ p \in pending
    /\ pending' = pending \ {p}
    /\ IF Permits(events[p], now)
         THEN /\ events' = [q \in DOMAIN events \ {p} |-> events[q]]
              /\ calls' = [calls EXCEPT ![p] = @ + 1]
              /\ th' = Start(events[p].callbacks, p)
         ELSE UNCHANGED <<events, calls, th>>
    /\ UNCHANGED <<pc, proc, going_down, now, slept, refused, mode,
                   direction, level, child, log, edges>>

(* Mutant of Poll: a pending pin is served at once, on top of a callback
   that is still running *)
Poll_preempt(p) ==
    /\ alive /\ p \in pending
    /\ pending' = pending \ {p}
    /\ IF Permits(events[p], now)
         THEN /\ events' = [events EXCEPT ![p].lastcall = now]
              /\ calls' = [calls EXCEPT ![p] = @ + 1]
              /\ th' = Start(events[p].callbacks, p)
         ELSE UNCHANGED <<events, calls, th>>
    /\ UNCHANGED <<pc, proc, going_down, now, slept, refused, mode,
                   direction, level, child, log, edges>>

(* The thread, idle, takes a pending pin: it runs the callbacks or drops the edge *)
Poll(p) ==
    /\ alive /\ th = Idle /\ p \in pending
    /\ pending' = pending \ {p}
    /\ IF Permits(events[p], now)
         THEN /\ events' = [events EXCEPT ![p].lastcall = now]
              /\ calls' = [calls EXCEPT ![p] = @ + 1]
              /\ th' = Start(events[p].callbacks, p)
         ELSE UNCHANGED <<events, calls, th>>
    /\ UNCHANGED <<pc, proc, going_down, now, slept, refused, mode,
                   direction, level, child, log, edges>>

(* The statement the thread is at *)
Line == Body(Head(th.todo))[th.line]

(* Past the statement: the next one, the next callback of the pin, or idle *)
Advance(t) ==
    IF t.line < Len(Body(Head(t.todo)))
      THEN [t EXCEPT !.line = @ + 1, !.blocked = FALSE]
    ELSE Start(Tail(t.todo), t.pin)

(* print("...") *)
Notify ==
    /\ alive /\ th # Idle /\ ~th.blocked /\ Line.op = "print"
    /\ log' = Append(log, Line)
    /\ th' = Advance(th)
    /\ UNCHANGED <<pc, proc, going_down, now, slept, refused, mode,
                   direction, events, level, pending, child, edges, calls>>

(* Mutant of System: the command is started and not waited for *)
System_detached ==
    /\ alive /\ th # Idle /\ ~th.blocked /\ Line.op = "system"
    /\ log' = Append(log, Line)
    /\ child' = Line.arg
    /\ th' = Advance(th)
    /\ UNCHANGED <<pc, proc, going_down, now, slept, refused, mode,
                   direction, events, level, pending, edges, calls>>

(* os.system("..."): the command starts and the caller waits for it *)
System ==
    /\ alive /\ th # Idle /\ ~th.blocked /\ Line.op = "system"
    /\ log' = Append(log, Line)
    /\ child' = Line.arg
    /\ th' = [th EXCEPT !.blocked = TRUE]
    /\ UNCHANGED <<pc, proc, going_down, now, slept, refused, mode,
                   direction, events, level, pending, edges, calls>>

(* Mutant of CommandReturns: a failed command is run again *)
CommandReturns_retry(ok) ==
    /\ alive /\ th # Idle /\ th.blocked /\ child # "none"
    /\ child' = "none"
    /\ log' = Append(log, [op |-> "returned", arg |-> IF ok THEN "ok" ELSE "failed"])
    /\ th' = IF ok THEN Advance(th) ELSE [th EXCEPT !.blocked = FALSE]
    /\ going_down' = (going_down \/ ok)
    /\ UNCHANGED <<pc, proc, now, slept, refused, mode, direction,
                   events, level, pending, edges, calls>>

(* The command returns; os.system returns its status, which the callback drops.
   A command that succeeded has told the machine to go down. *)
CommandReturns(ok) ==
    /\ alive /\ th # Idle /\ th.blocked /\ child # "none"
    /\ child' = "none"
    /\ log' = Append(log, [op |-> "returned", arg |-> IF ok THEN "ok" ELSE "failed"])
    /\ th' = Advance(th)
    /\ going_down' = (going_down \/ ok)
    /\ UNCHANGED <<pc, proc, now, slept, refused, mode, direction,
                   events, level, pending, edges, calls>>

(* The machine halts or restarts: the process is gone *)
Terminate ==
    /\ alive /\ going_down
    /\ proc' = "down"
    /\ UNCHANGED <<pc, going_down, now, slept, refused, mode, direction,
                   events, level, pending, th, child, log, edges, calls>>

(* Time passes; an idle thread looks at a pending edge before it does *)
Tick ==
    /\ alive
    /\ now < MaxTicks * Step
    /\ ~(th = Idle /\ pending # {})
    /\ now' = now + Step
    /\ UNCHANGED <<pc, proc, going_down, slept, refused, mode, direction,
                   events, level, pending, th, child, log, edges, calls>>

Next ==
    \/ Setmode
    \/ Setup
    \/ AddEventDetect
    \/ While
    \/ Sleep
    \/ \E p \in Pins : FallingEdge(p)
    \/ \E p \in Pins : RisingEdge(p)
    \/ \E p \in Pins : Poll(p)
    \/ Notify
    \/ System
    \/ \E ok \in BOOLEAN : CommandReturns(ok)
    \/ Terminate
    \/ Tick

Spec == Init /\ [][Next]_vars

----------------------------------------------------------------------------
(* What the log holds *)

Count(op, arg) ==
    Cardinality({i \in DOMAIN log : log[i].op = op /\ log[i].arg = arg})

Issued(cmd) == Count("system", cmd)
Said(msg) == Count("print", msg)

(* The thread is through with the edges of pin p: none pending, no callback
   of p running *)
Handled(p) == p \notin pending /\ (th = Idle \/ th.pin # p)

----------------------------------------------------------------------------
(* Two falling edges on pin p, both after initialization, less than 200 ms
   apart *)
TwoEdgesClose(p) ==
    /\ Len(edges[p]) = 2
    /\ edges[p][1].ready
    /\ edges[p][2].at - edges[p][1].at < BounceTime

(* C1, as claimed: debounce by the spacing of the edges.  Whenever two falling
   edges have occurred on a pin less than 200 ms apart, the pin's callback
   has been invoked at most once: the second edge is ignored. *)
C1_Debounce ==
    \A p \in Pins : TwoEdgesClose(p) => calls[p] <= 1

(* C1, amended: debounce by the time the thread takes the edge up.  A pin's
   callback is invoked only when the pin never fired before or more than
   200 ms have passed since it last fired, so an edge taken up 200 ms or less
   after the pin's previous triggered callback is ignored; and of two falling
   edges less than 200 ms apart at most one has invoked the callback as long
   as no more than 200 ms have passed since the first. *)
C1_BounceWindow ==
    /\ [][\A p \in Pins :
            calls'[p] # calls[p] =>
               /\ p \in DOMAIN events
               /\ \/ events[p].lastcall = NoCall
                  \/ now - events[p].lastcall > BounceTime
               /\ events'[p].lastcall = now
               /\ calls'[p] = calls[p] + 1]_vars
    /\ [](\A p \in Pins :
            (TwoEdgesClose(p) /\ now - edges[p][1].at <= BounceTime)
               => calls[p] <= 1)

(* The second of two close edges was taken up and ignored *)
C1_Witness ==
    /\ TwoEdgesClose(ShutdownPin)
    /\ Handled(ShutdownPin)
    /\ calls[ShutdownPin] = 1
    /\ Issued("sudo shutdown -h now") = 1

(* C2: one falling edge on the shutdown pin, after initialization and more
   than 200 ms after process start, never gives more than one shutdown
   command or more than one "shutting down", gives exactly one of each once
   the thread is through with it, and gives no reboot command (reboot
   commands number at most the edges of the reboot pin). *)
C2_ShutdownOnce ==
    LET e == edges[ShutdownPin] IN
    (Len(e) = 1 /\ e[1].ready /\ e[1].at > BounceTime) =>
        /\ Issued("sudo shutdown -h now") <= 1
        /\ Said("shutting down") <= 1
        /\ Issued("sudo reboot") <= Len(edges[RebootPin])
        /\ Handled(ShutdownPin) =>
              /\ Issued("sudo shutdown -h now") = 1
              /\ Said("shutting down") = 1

C2_Witness ==
    LET e == edges[ShutdownPin] IN
    /\ Len(e) = 1 /\ e[1].ready /\ e[1].at > BounceTime
    /\ Handled(ShutdownPin)
    /\ Issued("sudo shutdown -h now") = 1
    /\ Said("shutting down") = 1
    /\ Issued("sudo reboot") = 0

(* C3: one falling edge on the reboot pin, after initialization, never gives
   more than one reboot command or more than one "rebooting", and gives
   exactly one of each once the thread is through with it, whatever happens
   on the shutdown pin (edges, a shutdown callback running or finished). *)
C3_RebootOnce ==
    LET e == edges[RebootPin] IN
    (Len(e) = 1 /\ e[1].ready) =>
        /\ Issued("sudo reboot") <= 1
        /\ Said("rebooting") <= 1
        /\ Handled(RebootPin) =>
              /\ Issued("sudo reboot") = 1
              /\ Said("rebooting") = 1

(* The reboot edge came while the shutdown callback was blocked in its
   command, and was served after it *)
C3_Witness ==
    /\ Len(edges[RebootPin]) = 1 /\ edges[RebootPin][1].ready
    /\ Len(edges[ShutdownPin]) = 1
    /\ Len(log) >= 5
    /\ log[2] = [op |-> "system", arg |-> "sudo shutdown -h now"]
    /\ log[3].op = "returned"
    /\ log[5] = [op |-> "system", arg |-> "sudo reboot"]
    /\ Issued("sudo reboot") = 1 /\ Said("rebooting") = 1

(* C4: with the script's pins (23 and 24, valid and distinct) initialization
   fails only if the platform refuses a pin, and once the main loop is
   reached the shutdown callback is registered exactly once on pin 23, the
   reboot callback exactly once on pin 24, and nothing else is registered. *)
C4_Registered ==
    /\ (proc = "crashed") => refused # 0
    /\ InLoop =>
          /\ DOMAIN events = {ShutdownPin, RebootPin}
          /\ events[ShutdownPin].callbacks = <<"shutdown">>
          /\ events[RebootPin].callbacks = <<"reboot">>
          /\ \A p \in DOMAIN events : events[p].edge = "falling"

C4_Witness ==
    /\ InLoop /\ alive /\ refused = 0
    /\ events[ShutdownPin].callbacks = <<"shutdown">>
    /\ events[RebootPin].callbacks = <<"reboot">>

(* C6: a configuration error at startup is fatal.  Once the platform has
   refused a pin at a setup or registration step the process has crashed with
   the main thread still at that step, so the main loop is never entered
   after a failed step; and a crashed process stays crashed. *)
C6_FatalConfigError ==
    /\ [](refused # 0 => (proc = "crashed" /\ pc = refused /\ ~InLoop))
    /\ [][proc = "crashed" => (proc' = "crashed" /\ pc' = pc)]_vars

(* The second registration failed with the first one already made *)
C6_Witness ==
    /\ refused = Len(Main)
    /\ proc = "crashed"
    /\ ShutdownPin \in DOMAIN events

(* C7: the main loop never exits and its steps issue nothing.  A step of the
   main thread inside the loop stays inside the loop and leaves the log
   alone, and as long as no falling edge has occurred nothing has been
   printed or issued, however often the sleep has returned. *)
C7_LoopNeverExits ==
    /\ [][InLoop => InLoop']_vars
    /\ [][(InLoop /\ pc' # pc) => log' = log]_vars
    /\ [](NumEdges = 0 => log = <<>>)

C7_Witness ==
    /\ slept /\ InLoop /\ alive
    /\ now >= BounceTime
    /\ NumEdges = 0 /\ log = <<>>

(* A step in which a command returns a failure status *)
FailStep ==
    /\ Len(log') = Len(log) + 1
    /\ log'[Len(log')] = [op |-> "returned", arg |-> "failed"]

(* C8: a command that fails changes nothing.  In the step in which it returns
   its failure the callback returns (the thread is idle again), the process
   lives, the main thread stays where it is, the registrations are untouched
   and no command is started; and each command is issued at most once per
   invocation of its pin's callback, so it is issued again only for a new
   falling edge that the bounce test lets through. *)
C8_CommandFailure ==
    /\ [][FailStep => /\ th' = Idle
                      /\ alive'
                      /\ pc' = pc
                      /\ events' = events
                      /\ child' = "none"]_vars
    /\ [](/\ Issued("sudo shutdown -h now") <= calls[ShutdownPin]
          /\ Issued("sudo reboot") <= calls[RebootPin])

(* The shutdown command failed and the monitor is as before *)
C8_Witness ==
    /\ Len(log) = 3
    /\ log[2] = [op |-> "system", arg |-> "sudo shutdown -h now"]
    /\ log[3] = [op |-> "returned", arg |-> "failed"]
    /\ alive /\ InLoop /\ th = Idle
    /\ DOMAIN events = Pins

(* C9, as claimed: the callback does not wait for the command, so the
   notification thread is never blocked while a command is running. *)
C9_FireAndForget ==
    child # "none" => (th = Idle \/ ~th.blocked)

(* C9, amended: the command is issued synchronously.  A command is running
   exactly while the notification thread is blocked in the callback at the
   os.system line that issued it, and the status the command returns is the
   last thing the log holds for it: nothing inspects it. *)
C9_Synchronous ==
    /\ child # "none" <=> (th # Idle /\ th.blocked)
    /\ child # "none" => (Line.op = "system" /\ Line.arg = child)

(* A reboot edge waits while the thread is blocked in the shutdown command *)
C9_Witness ==
    /\ child = "sudo shutdown -h now"
    /\ th # Idle /\ th.blocked
    /\ RebootPin \in pending
    /\ now >= BounceTime

(* C10: the notification precedes the command.  At every moment the shutdown
   commands issued number at most the "shutting down" printed, and the reboot
   commands at most the "rebooting" printed. *)
C10_NotifyThenCommand ==
    /\ Issued("sudo shutdown -h now") <= Said("shutting down")
    /\ Issued("sudo reboot") <= Said("rebooting")

C10_Witness ==
    /\ Len(log) >= 2
    /\ log[1] = [op |-> "print", arg |-> "shutting down"]
    /\ log[2] = [op |-> "system", arg |-> "sudo shutdown -h now"]

(* The command of a pin's callback *)
CommandOf(p) == IF p = ShutdownPin THEN "sudo shutdown -h now" ELSE "sudo reboot"

(* C11, as claimed: nothing arbitrates between the two callbacks, so they run
   concurrently when both buttons are pressed: an edge on one pin is never
   kept waiting while the other pin's callback executes. *)
C11_NoArbitration ==
    \A p \in Pins : ~(p \in pending /\ th # Idle /\ th.pin # p)

(* C11, amended: the callbacks never overlap.  One callback executes at a
   time, and what the process prints and issues is a succession of whole
   callbacks: a notification follows only the return of the previous command,
   a command only its own notification, a return only its own command.  (Both
   commands are issued in one run, in either order, when the first returns
   and the process lives on.) *)
C11_Serialized ==
    /\ th # Idle => Len(th.todo) = 1
    /\ \A i \in DOMAIN log :
          /\ log[i].op = "print" => (i = 1 \/ log[i - 1].op = "returned")
          /\ log[i].op = "system" => (i > 1 /\ log[i - 1].op = "print")
          /\ log[i].op = "returned" => (i > 1 /\ log[i - 1].op = "system")

(* Both buttons pressed at the same instant: the reboot ran first, alone, and
   the shutdown command was issued after the reboot command had returned *)
C11_Witness ==
    /\ Len(edges[ShutdownPin]) = 1 /\ Len(edges[RebootPin]) = 1
    /\ edges[ShutdownPin][1].ready /\ edges[RebootPin][1].ready
    /\ edges[ShutdownPin][1].at = edges[RebootPin][1].at
    /\ Len(log) >= 5
    /\ log[2] = [op |-> "system", arg |-> "sudo reboot"]
    /\ log[3].op = "returned"
    /\ log[5] = [op |-> "system", arg |-> "sudo shutdown -h now"]

(* C12: commands are bound to pins.  Each pin's command has been issued at
   most as often as the pin's callback was invoked, the callback at most as
   often as the pin saw a falling edge, and the callback and the command in
   progress are those of the pin being served. *)
C12_NoCrossover ==
    /\ \A p \in Pins :
          /\ Issued(CommandOf(p)) <= calls[p]
          /\ calls[p] <= Len(edges[p])
    /\ th # Idle =>
          /\ Head(th.todo) = (IF th.pin = ShutdownPin THEN "shutdown" ELSE "reboot")
          /\ child \in {"none", CommandOf(th.pin)}

(* An edge on the reboot pin alone: its command, and no shutdown command *)
C12_Witness ==
    /\ edges[ShutdownPin] = <<>>
    /\ calls[RebootPin] = 1
    /\ Issued("sudo reboot") = 1
    /\ Issued("sudo shutdown -h now") = 0
    /\ th = Idle

(* C13: only falling edges trigger.  A step in which a line goes from LOW to
   HIGH queues no edge for the thread, invokes no callback and issues no
   command, so a pin's command has never been issued more often than the pin's
   button was pressed. *)
C13_FallingOnly ==
    /\ [][\A p \in Pins :
            (level[p] = "LOW" /\ level'[p] = "HIGH") =>
               /\ pending' = pending
               /\ calls' = calls
               /\ th' = th
               /\ log' = log]_vars
    /\ [](\A p \in Pins : Issued(CommandOf(p)) <= Len(edges[p]))

(* One press and release of the shutdown button, long past: one command *)
C13_Witness ==
    /\ Len(edges[ShutdownPin]) = 1 /\ level[ShutdownPin] = "HIGH"
    /\ edges[RebootPin] = <<>>
    /\ now - edges[ShutdownPin][1].at > BounceTime
    /\ th = Idle /\ pending = {}
    /\ Issued("sudo shutdown -h now") = 1

(* The fields of a registration that add_event_detect sets for good *)
Registration(ev) ==
    [edge |-> ev.edge, callbacks |-> ev.callbacks, bouncetime |-> ev.bouncetime]

(* C14: registrations are permanent.  No step removes a registration or
   changes its edge, its callback or its bounce time, and once the
   initialization has completed both pins stay registered, with their own
   callbacks, while callbacks execute and after them. *)
C14_Permanent ==
    /\ [][\A p \in DOMAIN events :
            /\ p \in DOMAIN events'
            /\ Registration(events'[p]) = Registration(events[p])]_vars
    /\ [](InLoop =>
            /\ DOMAIN events = Pins
            /\ events[ShutdownPin].callbacks = <<"shutdown">>
            /\ events[RebootPin].callbacks = <<"reboot">>)

(* Both callbacks have run to their end and both pins are still registered *)
C14_Witness ==
    /\ InLoop /\ alive /\ th = Idle
    /\ calls[ShutdownPin] = 1 /\ calls[RebootPin] = 1
    /\ Len(log) = 6
    /\ DOMAIN events = Pins

(* The thread takes up the pending edge of pin p in this step *)
TakeUp(p) == p \in pending /\ p \notin pending'

(* C15, as claimed: while the process is alive, a falling edge on a pin that
   has triggered before, arriving 200 ms or more after that triggered
   callback, invokes the callback again. *)
C15_AtLeastBounceTime ==
    [][\A p \in Pins :
         (TakeUp(p) /\ events[p].lastcall # NoCall
                    /\ edges[p][Len(edges[p])].at - events[p].lastcall
                          >= BounceTime)
            => calls'[p] = calls[p] + 1]_vars

(* C15, amended: no latch.  While the process is alive, a falling edge on a
   pin that has triggered before, looked at more than 200 ms after that
   triggered callback, invokes the callback again, whatever was issued
   before; and the commands issued for a pin are as many as the callbacks
   invoked for it, less the one that has not reached its command yet. *)
C15_NoLatch ==
    /\ [][\A p \in Pins :
            (TakeUp(p) /\ events[p].lastcall # NoCall
                       /\ now - events[p].lastcall > BounceTime)
               => /\ calls'[p] = calls[p] + 1
                  /\ th' = Start(events[p].callbacks, p)]_vars
    /\ [](\A p \in Pins :
            Issued(CommandOf(p)) =
               calls[p] - (IF th # Idle /\ th.pin = p /\ ~th.blocked
                             THEN 1 ELSE 0))

(* The shutdown command, issued once and returned with the process alive, is
   issued a second time for a second press *)
C15_Witness ==
    /\ alive
    /\ calls[ShutdownPin] = 2
    /\ Issued("sudo shutdown -h now") = 2
    /\ log[3].op = "returned"

(* C16: initialization is not atomic with edge delivery.  The shutdown pin
   is registered before the reboot pin is configured, and both before the
   loop starts; while the reboot pin is not registered no edge on it is
   queued and no reboot callback runs, and reboot presses that all came
   before the loop have issued no reboot command.  (The shutdown callback
   can run in that interval: the witness.) *)
C16_InitNotAtomic ==
    /\ RebootPin \in DOMAIN direction => ShutdownPin \in DOMAIN events
    /\ (InLoop /\ proc # "crashed") => RebootPin \in DOMAIN events
    /\ RebootPin \notin DOMAIN events =>
          /\ RebootPin \notin pending
          /\ calls[RebootPin] = 0
    /\ (\A i \in DOMAIN edges[RebootPin] : ~edges[RebootPin][i].ready) =>
          /\ calls[RebootPin] = 0
          /\ Issued("sudo reboot") = 0

(* Between the two registrations both buttons were pressed: the shutdown
   command is issued, the reboot press is lost *)
C16_Witness ==
    /\ alive /\ ~InLoop
    /\ RebootPin \notin DOMAIN events
    /\ Len(edges[RebootPin]) = 1 /\ level[RebootPin] = "LOW"
    /\ RebootPin \notin pending
    /\ th # Idle /\ th.pin = ShutdownPin
    /\ Issued("sudo shutdown -h now") = 1
    /\ Issued("sudo reboot") = 0

(* C17: bounce windows are per pin.  An edge on one pin that its own window
   lets through invokes its callback when the thread takes it up, although
   the other pin triggered 200 ms ago or less; and a pin's window is open
   from the start until the pin's own first callback. *)
C17_PerPinWindow ==
    /\ [][\A p \in Pins : \A q \in Pins \ {p} :
            (/\ TakeUp(p) /\ q \in DOMAIN events
             /\ events[q].lastcall # NoCall
             /\ now - events[q].lastcall <= BounceTime
             /\ \/ events[p].lastcall = NoCall
                \/ now - events[p].lastcall > BounceTime)
               => /\ calls'[p] = calls[p] + 1
                  /\ th' = Start(events[p].callbacks, p)]_vars
    /\ [](\A p \in DOMAIN events :
            (events[p].lastcall = NoCall) <=> (calls[p] = 0))

(* The reboot callback invoked less than 200 ms after the shutdown callback *)
C17_Witness ==
    /\ DOMAIN events = Pins
    /\ calls[ShutdownPin] = 1 /\ calls[RebootPin] = 1
    /\ log[2] = [op |-> "system", arg |-> "sudo shutdown -h now"]
    /\ events[RebootPin].lastcall - events[ShutdownPin].lastcall < BounceTime
    /\ Issued("sudo reboot") = 1

=============================================================================
